---- MODULE Spec2Model ----
(***************************************************************************)
(* Model of src/full_node/mempool.py (class Mempool): the bounded,         *)
(* fee-prioritised pool of pending spends with its four indices            *)
(*   spends         name -> item                                           *)
(*   sorted_spends  fee_per_cost -> insertion-ordered dict name -> item    *)
(*   additions      coin name -> item producing it                         *)
(*   removals       coin name -> item consuming it                         *)
(* Python exceptions (KeyError of `del d[k]`, IndexError of peekitem on an *)
(* empty SortedDict) abort the running method and leave every assignment   *)
(* already made in place; the model keeps that partial state and records   *)
(* the exception in call.raised.                                           *)
(*                                                                         *)
(* Second part: src/rpc/wallet_rpc_api.py, WalletRpcApi.send_transaction,  *)
(* one request followed statement by statement (pc), with the clock the    *)
(* loop reads (now), under the specification SpecSend.                     *)
(***************************************************************************)
EXTENDS Integers, Sequences, FiniteSets, TLC

\* ---------------------------------------------------------------- bounds
MaxSize == 2
MaxFee == 1
MaxBadCalls == 1
MaxDelay == 1
MaxPeers == 2
MaxWallets == 1

\* Timeout for response from wallet/full node for sending a transaction
TIMEOUT == 30

\* Spend bundles are named 1..MaxSize+3.  All but the last are pairwise
\* disjoint (bundle n spends coin n and creates coin n); the last bundle
\* spends a coin of its own and coin 1 (the coin bundle 1 spends) and creates
\* coin 2 (the coin bundle 2 creates).
Names == 1..(MaxSize + 3)
Fees == 0..MaxFee
Tips == {"tip"}

\* ---------------------------------------------------------------- helpers
Range(s) == {s[i] : i \in DOMAIN s}

Restrict(f, S) == [x \in S |-> f[x]]

Min(S) == CHOOSE x \in S : \A y \in S : x <= y

\* item.spend_bundle.removals(): the coins the bundle named n spends.
removals_of(n) == IF n <= MaxSize + 2 THEN <<n>> ELSE <<n, 1>>

\* item.spend_bundle.additions(): the coins the bundle named n creates.
additions_of(n) == IF n <= MaxSize + 2 THEN <<n>> ELSE <<2>>

\* A MempoolItem: name, fee_per_cost and the coins of its spend bundle.
MempoolItem(n, f) ==
    [name |-> n, fee_per_cost |-> f, rem |-> removals_of(n), add |-> additions_of(n)]

Items == {MempoolItem(n, f) : n \in Names, f \in Fees}

NoItem == [name |-> 0, fee_per_cost |-> 0, rem |-> <<>>, add |-> <<>>]

EmptyMap == [x \in {} |-> NoItem]

VARIABLES header, size, min_fee, spends, sorted_spends, additions, removals,
          call,      \* the last call: its argument, what it found and how it ended
          resolved,  \* history: every add_to_pool so far named no coin then indexed
          bad        \* history: the calls so far that broke a precondition

\* send_transaction: one request
VARIABLES pc,         \* the statement the request is at
          now,        \* time.time(), in seconds
          wallet_id, start, sent, data,
          pushed,     \* history: push_transaction has returned
          first       \* history: sent_to[0] of the first non-empty result

vars == <<header, size, min_fee, spends, sorted_spends, additions, removals,
          call, resolved, bad,
          pc, now, wallet_id, start, sent, data, pushed, first>>

wallet == <<pc, now, wallet_id, start, sent, data, pushed, first>>

\* No response built yet / no peer status reported yet.
NoData == [status |-> "none", reason |-> "none", id |-> 0]

NoStatus == <<"none", "none", "none">>

\* No request is running.
WalletIdle ==
    /\ pc = "idle" /\ now = 0 /\ wallet_id = 0 /\ start = 0
    /\ sent = FALSE /\ data = NoData /\ pushed = FALSE /\ first = NoStatus

history == <<resolved, bad>>

indices == <<spends, sorted_spends, additions, removals>>

\* The four indices as one value, for the pure translation of the methods.
Pool == [spends |-> spends, sorted_spends |-> sorted_spends,
         additions |-> additions, removals |-> removals]

\* ---------------------------------------------------------------- methods
\* (variant: `>` written for `>=`)
at_full_capacity_gt(sp, sz) == Cardinality(DOMAIN sp) > sz

at_full_capacity(sp, sz) == Cardinality(DOMAIN sp) >= sz

\* sorted_spends.peekitem(index=0): the smallest key (IndexError when empty).
\* (variant: peekitem(index=-1), the largest key)
peekitem_last(ss) == CHOOSE x \in DOMAIN ss : \A y \in DOMAIN ss : x >= y

peekitem0(ss) == Min(DOMAIN ss)

\* for c in coins: del m[c]  -- stops at the first missing key (KeyError).
\* (variant: only the first coin of the list is deleted)
DelKeys_first(m, l) ==
    IF l = <<>> THEN [m |-> m, raised |-> "none"]
    ELSE IF Head(l) \notin DOMAIN m THEN [m |-> m, raised |-> "KeyError"]
    ELSE [m |-> Restrict(m, DOMAIN m \ {Head(l)}), raised |-> "none"]

RECURSIVE DelKeys(_, _)
DelKeys(m, l) ==
    IF l = <<>> THEN [m |-> m, raised |-> "none"]
    ELSE IF Head(l) \notin DOMAIN m THEN [m |-> m, raised |-> "KeyError"]
    ELSE DelKeys(Restrict(m, DOMAIN m \ {Head(l)}), Tail(l))

\* del bucket[name] on an insertion-ordered dict kept as a sequence of items.
DelFromBucket(b, name) == SelectSeq(b, LAMBDA it : it.name # name)

BucketNames(b) == {b[i].name : i \in DOMAIN b}

\* (variant: the emptied bucket is left in place)
DelSorted_keep(ss, item) ==
    [ss EXCEPT ![item.fee_per_cost] = DelFromBucket(@, item.name)]

\* lines 49-52: del sorted_spends[fee][name]; drop the bucket when empty.
DelSorted(ss, item) ==
    LET b == DelFromBucket(ss[item.fee_per_cost], item.name)
    IN  IF Len(b) = 0 THEN Restrict(ss, DOMAIN ss \ {item.fee_per_cost})
        ELSE [ss EXCEPT ![item.fee_per_cost] = b]

\* (variant: line 48 left out)
DelSpends_keep(sp, name) == sp

\* line 48: del self.spends[item.name]  (the caller has checked the key)
DelSpends(sp, name) == Restrict(sp, DOMAIN sp \ {name})

remove_spend(p, item) ==
    LET r1 == DelKeys(p.removals, item.rem)
        p1 == [p EXCEPT !.removals = r1.m]
        r2 == DelKeys(p1.additions, item.add)
        p2 == [p1 EXCEPT !.additions = r2.m]
        p3 == [p2 EXCEPT !.spends = DelSpends(p2.spends, item.name)]
    IN  IF r1.raised # "none" THEN [pool |-> p1, raised |-> "KeyError"]
        ELSE IF r2.raised # "none" THEN [pool |-> p2, raised |-> "KeyError"]
        ELSE IF item.name \notin DOMAIN p2.spends THEN [pool |-> p2, raised |-> "KeyError"]
        ELSE IF \/ item.fee_per_cost \notin DOMAIN p3.sorted_spends
                \/ item.name \notin BucketNames(p3.sorted_spends[item.fee_per_cost])
             THEN [pool |-> p3, raised |-> "KeyError"]
        ELSE [pool |-> [p3 EXCEPT !.sorted_spends = DelSorted(p3.sorted_spends, item)],
              raised |-> "none"]

\* bucket[name] = item: a new key goes last, an existing key keeps its place.
SetInBucket(b, item) ==
    IF item.name \in BucketNames(b)
    THEN [i \in DOMAIN b |-> IF b[i].name = item.name THEN item ELSE b[i]]
    ELSE Append(b, item)

\* (variant: the bucket is always created afresh, lines 72-73 only)
InsertSorted_fresh(ss, item) ==
    [f \in DOMAIN ss \cup {item.fee_per_cost} |->
        IF f = item.fee_per_cost THEN <<item>> ELSE ss[f]]

\* lines 69-73
InsertSorted(ss, item) ==
    IF item.fee_per_cost \in DOMAIN ss
    THEN [ss EXCEPT ![item.fee_per_cost] = SetInBucket(@, item)]
    ELSE [f \in DOMAIN ss \cup {item.fee_per_cost} |->
            IF f = item.fee_per_cost THEN <<item>> ELSE ss[f]]

\* for k in keys: m[k] = item
SetKeys(m, keys, item) ==
    [c \in DOMAIN m \cup keys |-> IF c \in keys THEN item ELSE m[c]]

\* (variant: list(val.values())[-1], the last value of the bucket)
to_remove_last(ss) == LET b == ss[peekitem0(ss)] IN b[Len(b)]

\* lines 62-63: first value of the bucket under the smallest key.
to_remove(ss) == Head(ss[peekitem0(ss)])

\* (variant: lines 77-78 left out, removals is not written)
Insert_noremovals(p, item, adds, rems) ==
    [spends |-> [n \in DOMAIN p.spends \cup {item.name} |->
                    IF n = item.name THEN item ELSE p.spends[n]],
     sorted_spends |-> InsertSorted(p.sorted_spends, item),
     additions |-> SetKeys(p.additions, adds, item),
     removals |-> p.removals]

\* lines 66-78
Insert(p, item, adds, rems) ==
    [spends |-> [n \in DOMAIN p.spends \cup {item.name} |->
                    IF n = item.name THEN item ELSE p.spends[n]],
     sorted_spends |-> InsertSorted(p.sorted_spends, item),
     additions |-> SetKeys(p.additions, adds, item),
     removals |-> SetKeys(p.removals, rems, item)]

\* (variant: lines 66-78 moved before lines 60-64: insert first, then evict)
add_to_pool_insert_first(p, sz, item, adds, rems) ==
    LET q == Insert(p, item, adds, rems)
    IN  IF at_full_capacity(p.spends, sz)
        THEN LET v == to_remove(q.sorted_spends)
                 r == remove_spend(q, v)
             IN  [pool |-> r.pool, raised |-> r.raised, victim |-> v]
        ELSE [pool |-> q, raised |-> "none", victim |-> NoItem]

\* (variant: a full pool refuses an item below its smallest fee_per_cost)
add_to_pool_gate(p, sz, item, adds, rems) ==
    IF /\ at_full_capacity(p.spends, sz)
       /\ DOMAIN p.sorted_spends # {}
       /\ item.fee_per_cost < peekitem0(p.sorted_spends)
    THEN [pool |-> p, raised |-> "none", victim |-> NoItem]
    ELSE IF at_full_capacity(p.spends, sz)
    THEN IF DOMAIN p.sorted_spends = {}
         THEN [pool |-> p, raised |-> "IndexError", victim |-> NoItem]
         ELSE LET v == to_remove(p.sorted_spends)
                  r == remove_spend(p, v)
              IN  IF r.raised # "none"
                  THEN [pool |-> r.pool, raised |-> r.raised, victim |-> v]
                  ELSE [pool |-> Insert(r.pool, item, adds, rems),
                        raised |-> "none", victim |-> v]
    ELSE [pool |-> Insert(p, item, adds, rems), raised |-> "none", victim |-> NoItem]

add_to_pool(p, sz, item, adds, rems) ==
    IF at_full_capacity(p.spends, sz)
    THEN IF DOMAIN p.sorted_spends = {}
         THEN [pool |-> p, raised |-> "IndexError", victim |-> NoItem]
         ELSE LET v == to_remove(p.sorted_spends)
                  r == remove_spend(p, v)
              IN  IF r.raised # "none"
                  THEN [pool |-> r.pool, raised |-> r.raised, victim |-> v]
                  ELSE [pool |-> Insert(r.pool, item, adds, rems),
                        raised |-> "none", victim |-> v]
    ELSE [pool |-> Insert(p, item, adds, rems), raised |-> "none", victim |-> NoItem]

\* The maps that the loop del m[k] for k in l passes through, one after each
\* deletion, up to the first missing key.
RECURSIVE DelKeysStates(_, _)
DelKeysStates(m, l) ==
    IF l = <<>> \/ Head(l) \notin DOMAIN m THEN {}
    ELSE LET m1 == Restrict(m, DOMAIN m \ {Head(l)})
         IN  {m1} \cup DelKeysStates(m1, Tail(l))

\* The pools that remove_spend(item) passes through, one after each statement
\* of lines 44-52 that it executes.
remove_spend_states(p, item) ==
    LET r1 == DelKeys(p.removals, item.rem)
        p1 == [p EXCEPT !.removals = r1.m]
        r2 == DelKeys(p1.additions, item.add)
        p2 == [p1 EXCEPT !.additions = r2.m]
        p3 == [p2 EXCEPT !.spends = DelSpends(p2.spends, item.name)]
        p4 == [p3 EXCEPT !.sorted_spends[item.fee_per_cost] =
                             DelFromBucket(@, item.name)]
        p5 == [p3 EXCEPT !.sorted_spends = DelSorted(p3.sorted_spends, item)]
        s1 == {[p EXCEPT !.removals = m] : m \in DelKeysStates(p.removals, item.rem)}
        s2 == {[p1 EXCEPT !.additions = m] :
                   m \in DelKeysStates(p1.additions, item.add)}
    IN  IF r1.raised # "none" THEN s1
        ELSE IF r2.raised # "none" THEN s1 \cup s2
        ELSE IF item.name \notin DOMAIN p2.spends THEN s1 \cup s2
        ELSE IF \/ item.fee_per_cost \notin DOMAIN p3.sorted_spends
                \/ item.name \notin BucketNames(p3.sorted_spends[item.fee_per_cost])
             THEN s1 \cup s2 \cup {p3}
        ELSE s1 \cup s2 \cup {p3, p4, p5}

\* The pools that lines 66-78 pass through, one after each assignment; the
\* two loops write their keys in any order.
InsertStates(p, item, adds, rems) ==
    LET q1 == [p EXCEPT !.spends =
                  [n \in DOMAIN p.spends \cup {item.name} |->
                      IF n = item.name THEN item ELSE p.spends[n]]]
        q2 == [q1 EXCEPT !.sorted_spends = InsertSorted(q1.sorted_spends, item)]
        q3 == [q2 EXCEPT !.additions = SetKeys(q2.additions, adds, item)]
    IN  {q1, q2}
        \cup {[q2 EXCEPT !.additions = SetKeys(q2.additions, K, item)] :
                  K \in SUBSET adds}
        \cup {[q3 EXCEPT !.removals = SetKeys(q3.removals, K, item)] :
                  K \in SUBSET rems}

\* (variant: lines 66-78 moved before lines 60-64: insert first, then evict)
add_to_pool_states_insert_first(p, sz, item, adds, rems) ==
    LET q == Insert(p, item, adds, rems)
    IN  InsertStates(p, item, adds, rems)
        \cup (IF at_full_capacity(p.spends, sz)
              THEN remove_spend_states(q, to_remove(q.sorted_spends))
              ELSE {})

\* The pools that add_to_pool passes through, one after each statement that
\* writes an index.
add_to_pool_states(p, sz, item, adds, rems) ==
    IF at_full_capacity(p.spends, sz)
    THEN IF DOMAIN p.sorted_spends = {}
         THEN {}
         ELSE LET v == to_remove(p.sorted_spends)
                  r == remove_spend(p, v)
              IN  remove_spend_states(p, v)
                  \cup (IF r.raised # "none" THEN {}
                        ELSE InsertStates(r.pool, item, adds, rems))
    ELSE InsertStates(p, item, adds, rems)

get_min_fee_rate(p, sz) ==
    IF at_full_capacity(p.spends, sz)
    THEN IF DOMAIN p.sorted_spends = {}
         THEN [ret |-> 0, raised |-> "IndexError"]
         ELSE [ret |-> peekitem0(p.sorted_spends), raised |-> "none"]
    ELSE [ret |-> 0, raised |-> "none"]

\* ---------------------------------------------------------------- actions
Call(op, item, full, victim, raised, ret) ==
    [op |-> op, item |-> item, full |-> full, victim |-> victim,
     raised |-> raised, ret |-> ret]

\* Mempool.create(tip, size)
Init ==
    /\ header \in Tips
    /\ size \in 0..MaxSize
    /\ min_fee = 0
    /\ spends = EmptyMap
    /\ sorted_spends = [f \in {} |-> <<>>]
    /\ additions = EmptyMap
    /\ removals = EmptyMap
    /\ call = Call("create", NoItem, FALSE, NoItem, "none", 0)
    /\ resolved = TRUE
    /\ bad = 0
    /\ WalletIdle

SetPool(p) ==
    /\ spends' = p.spends
    /\ sorted_spends' = p.sorted_spends
    /\ additions' = p.additions
    /\ removals' = p.removals

\* The conflict lookup the caller makes before add_to_pool: no coin of the
\* item is a key of removals / additions.
NoConflict(item) ==
    /\ Range(item.rem) \cap DOMAIN removals = {}
    /\ Range(item.add) \cap DOMAIN additions = {}

\* remove_spend's precondition: this very item is the one stored in spends.
Admitted(item) == item.name \in DOMAIN spends /\ spends[item.name] = item

\* The caller passes the coins of the item's own bundle as additions and as
\* the keys of removals_dic.
OwnCoins(item, adds, rems) ==
    adds = Range(item.add) /\ rems = Range(item.rem)

\* (variant: min_fee follows the fee_per_cost of the item added, as the
\* comment at line 21 suggests)
AddToPool_min_fee(item, adds, rems) ==
    LET r == add_to_pool(Pool, size, item, adds, rems)
    IN  /\ SetPool(r.pool)
        /\ call' = Call("add_to_pool", item, at_full_capacity(spends, size),
                        r.victim, r.raised, 0)
        /\ resolved' = (resolved /\ NoConflict(item))
        /\ bad' = IF item.name \in DOMAIN spends \/ ~OwnCoins(item, adds, rems)
                  THEN bad + 1 ELSE bad
        /\ min_fee' = item.fee_per_cost
        /\ UNCHANGED <<header, size, wallet>>

AddToPool(item, adds, rems) ==
    LET r == add_to_pool(Pool, size, item, adds, rems)
    IN  /\ SetPool(r.pool)
        /\ call' = Call("add_to_pool", item, at_full_capacity(spends, size),
                        r.victim, r.raised, 0)
        /\ resolved' = (resolved /\ NoConflict(item))
        /\ bad' = IF item.name \in DOMAIN spends \/ ~OwnCoins(item, adds, rems)
                  THEN bad + 1 ELSE bad
        /\ UNCHANGED <<header, size, min_fee, wallet>>

RemoveSpend(item) ==
    LET r == remove_spend(Pool, item)
    IN  /\ SetPool(r.pool)
        /\ call' = Call("remove_spend", item, at_full_capacity(spends, size),
                        NoItem, r.raised, 0)
        /\ bad' = IF Admitted(item) THEN bad ELSE bad + 1
        /\ UNCHANGED <<header, size, min_fee, resolved, wallet>>

GetMinFeeRate ==
    LET r == get_min_fee_rate(Pool, size)
    IN  /\ call' = Call("get_min_fee_rate", NoItem, at_full_capacity(spends, size),
                        NoItem, r.raised, r.ret)
        /\ UNCHANGED <<header, size, min_fee, indices, history, wallet>>

AtFullCapacity ==
    /\ call' = Call("at_full_capacity", NoItem, at_full_capacity(spends, size),
                    NoItem, "none", 0)
    /\ UNCHANGED <<header, size, min_fee, indices, history, wallet>>

\* Callers that keep the stated preconditions: admit a name that is not in
\* spends, with the bundle's own coins; remove an item that is in spends.
\* Coin conflicts with admitted items are not excluded.
Admit ==
    \E item \in Items :
        /\ item.name \notin DOMAIN spends
        /\ AddToPool(item, Range(item.add), Range(item.rem))

Remove ==
    \E n \in DOMAIN spends : RemoveSpend(spends[n])

Next == Admit \/ Remove \/ GetMinFeeRate \/ AtFullCapacity

Spec == Init /\ [][Next]_vars

\* Any caller: every item may be passed to add_to_pool and to remove_spend,
\* whether or not its name is in spends; at most MaxBadCalls calls of a run
\* break a precondition.
AddAny ==
    \E item \in Items :
        /\ item.name \in DOMAIN spends => bad < MaxBadCalls
        /\ AddToPool(item, Range(item.add), Range(item.rem))

RemoveAny ==
    \E item \in Items :
        /\ ~Admitted(item) => bad < MaxBadCalls
        /\ RemoveSpend(item)

NextAny == AddAny \/ RemoveAny \/ GetMinFeeRate \/ AtFullCapacity

SpecAny == Init /\ [][NextAny]_vars

\* Callers that pass any additions and removals_dic: the additions list and
\* the removals_dic keys are any coins among the bundle's own coins and the
\* coins ArgCoins of the first bundle, not only the bundle's own; at most
\* MaxBadCalls calls of a run pass other coins than the bundle's own.
ArgCoins == Range(removals_of(Min(Names)))

AddArgs ==
    \E item \in Items :
        /\ item.name \notin DOMAIN spends
        /\ \E adds \in SUBSET (Range(item.add) \cup ArgCoins),
              rems \in SUBSET (Range(item.rem) \cup ArgCoins) :
              /\ ~OwnCoins(item, adds, rems) => bad < MaxBadCalls
              /\ AddToPool(item, adds, rems)

NextArgs == AddArgs \/ Remove \/ GetMinFeeRate \/ AtFullCapacity

SpecArgs == Init /\ [][NextArgs]_vars

\* ------------------------------------------------- send_transaction (rpc)
WalletIds == 1..MaxWallets

\* What an awaited call may take, in seconds.
Delays == 0..MaxDelay

Peers == {"peer"}

Errs == {"err"}

\* One entry of sent_to: (peer, MempoolInclusionStatus, Optional[str]).  The
\* node reports PENDING and FAILED with an error (the assertions of lines
\* 253 and 258) and SUCCESS without one.
Reports ==
    {<<p, "SUCCESS", "None">> : p \in Peers}
    \cup {<<p, st, e>> : p \in Peers, st \in {"PENDING", "FAILED"}, e \in Errs}

\* The results of get_transaction_status: a list of at most MaxPeers entries.
SentTo == UNION {[1..n -> Reports] : n \in 0..MaxPeers}

Failed(reason, id) == [status |-> "FAILED", reason |-> reason, id |-> id]

\* (variant: sent_to[-1], the last entry of the list)
Reported_last(sent_to) == sent_to[Len(sent_to)]

\* line 247: sent_to[0]
Reported(sent_to) == sent_to[1]

\* lines 247-261: the response built from the first entry of sent_to.
Respond(sent_to, id) ==
    LET status == Reported(sent_to)[2]
        err == Reported(sent_to)[3]
    IN  IF status = "SUCCESS"
        THEN [data |-> [status |-> "SUCCESS", reason |-> "none", id |-> id],
              raised |-> "none"]
        ELSE IF err = "None"
        THEN [data |-> NoData, raised |-> "AssertionError"]
        ELSE [data |-> [status |-> status, reason |-> err, id |-> id],
              raised |-> "none"]

\* A request arrives for one of the wallets; the pool takes no part.
InitSend ==
    /\ header \in Tips
    /\ size = MaxSize
    /\ min_fee = 0
    /\ spends = EmptyMap
    /\ sorted_spends = [f \in {} |-> <<>>]
    /\ additions = EmptyMap
    /\ removals = EmptyMap
    /\ call = Call("create", NoItem, FALSE, NoItem, "none", 0)
    /\ resolved = TRUE
    /\ bad = 0
    /\ pc = "generate" /\ now = 0 /\ wallet_id \in WalletIds /\ start = 0
    /\ sent = FALSE /\ data = NoData /\ pushed = FALSE /\ first = NoStatus

mempool == <<header, size, min_fee, indices, call, history>>

\* lines 210-225: tx = await wallet.generate_signed_transaction_dict(request)
GenerateSignedTransaction ==
    /\ pc = "generate"
    /\ \E d \in Delays, out \in {"tx", "None", "exception"} :
          /\ now' = now + d
          /\ IF out = "tx"
             THEN pc' = "push" /\ data' = data
             ELSE /\ pc' = "done"
                  /\ data' = Failed(IF out = "None"
                                    THEN "Failed to generate signed transaction"
                                    ELSE "Failed to generate signed transaction. Error",
                                    wallet_id)
    /\ UNCHANGED <<mempool, wallet_id, start, sent, pushed, first>>

\* lines 226-236: await wallet.push_transaction(tx); sent = False; start = now
PushTransaction ==
    /\ pc = "push"
    /\ \E d \in Delays, out \in {"ok", "exception"} :
          /\ now' = now + d
          /\ IF out = "ok"
             THEN /\ pc' = "while" /\ pushed' = TRUE /\ start' = now + d
                  /\ data' = data
             ELSE /\ pc' = "done" /\ pushed' = pushed /\ start' = start
                  /\ data' = Failed("Failed to push transaction", wallet_id)
    /\ sent' = FALSE
    /\ UNCHANGED <<mempool, wallet_id, first>>

\* (variant: `<=` written for `<`)
While_le ==
    /\ pc = "while"
    /\ pc' = IF now - start <= TIMEOUT THEN "poll" ELSE "return"
    /\ UNCHANGED <<mempool, now, wallet_id, start, sent, data, pushed, first>>

\* line 237: while time.time() - start < TIMEOUT
While ==
    /\ pc = "while"
    /\ pc' = IF now - start < TIMEOUT THEN "poll" ELSE "return"
    /\ UNCHANGED <<mempool, now, wallet_id, start, sent, data, pushed, first>>

\* lines 238-261: sent_to = await ...get_transaction_status(tx.name()), and
\* what the loop body makes of it.
GetTransactionStatus ==
    /\ pc = "poll"
    /\ \E d \in Delays, sent_to \in SentTo :
          /\ now' = now + d
          /\ IF Len(sent_to) = 0
             THEN /\ pc' = "sleep"
                  /\ UNCHANGED <<sent, data, first>>
             ELSE LET r == Respond(sent_to, wallet_id)
                  IN  /\ first' = IF first = NoStatus THEN sent_to[1] ELSE first
                      /\ IF r.raised # "none"
                         THEN pc' = "raised" /\ UNCHANGED <<sent, data>>
                         ELSE pc' = "return" /\ sent' = TRUE /\ data' = r.data
    /\ UNCHANGED <<mempool, wallet_id, start, pushed>>

\* lines 244-246: await asyncio.sleep(1); continue
Sleep ==
    /\ pc = "sleep"
    /\ \E d \in Delays : now' = now + 1 + d
    /\ pc' = "while"
    /\ UNCHANGED <<mempool, wallet_id, start, sent, data, pushed, first>>

\* lines 262-269: the timed-out response when the loop ended without a
\* result; return data
Return ==
    /\ pc = "return"
    /\ data' = IF ~sent
               THEN Failed("Timed out. Transaction may or may not have been sent.",
                           wallet_id)
               ELSE data
    /\ pc' = "done"
    /\ UNCHANGED <<mempool, now, wallet_id, start, sent, pushed, first>>

NextSend ==
    \/ GenerateSignedTransaction \/ PushTransaction \/ While
    \/ GetTransactionStatus \/ Sleep \/ Return

SpecSend == InitSend /\ [][NextSend]_vars

\* Every awaited call returns and the request is run on: no statement of the
\* request stays enabled for ever without being taken.
SpecSendFair == SpecSend /\ WF_vars(NextSend)

\* ---------------------------------------------------------------- claims
Size == Cardinality(DOMAIN spends)

AdmittedFees == {spends[n].fee_per_cost : n \in DOMAIN spends}

\* The names add_to_pool / remove_spend took out of spends in this step.
Evicted == DOMAIN spends \ DOMAIN spends'

\* C1: after every add_to_pool / remove_spend call the number of entries in
\* spends is at most the capacity the pool was created with.
C1_Capacity == Size <= size

C1_Witness ==
    /\ call.op = "add_to_pool" /\ call.raised = "none" /\ call.victim # NoItem
    /\ size >= 2 /\ Size = size

\* C2: every name in spends is in exactly one bucket of sorted_spends, the one
\* keyed by its item's fee_per_cost, once; every name in a bucket is in spends.
C2_FeeIndexCoherent ==
    /\ \A n \in DOMAIN spends :
          /\ {f \in DOMAIN sorted_spends : n \in BucketNames(sorted_spends[f])}
                = {spends[n].fee_per_cost}
          /\ Cardinality({i \in DOMAIN sorted_spends[spends[n].fee_per_cost] :
                sorted_spends[spends[n].fee_per_cost][i].name = n}) = 1
    /\ \A f \in DOMAIN sorted_spends :
          \A i \in DOMAIN sorted_spends[f] : sorted_spends[f][i].name \in DOMAIN spends

C2_Witness ==
    /\ call.op = "add_to_pool" /\ call.raised = "none" /\ call.victim # NoItem
    /\ Cardinality(DOMAIN sorted_spends) = 1 /\ Size >= 2

\* Every admitted item owns the removals / additions entry of each of its
\* coins, and every key of removals / additions maps to an item in spends.
CoinCoherent ==
    /\ \A n \in DOMAIN spends :
          /\ \A c \in Range(spends[n].rem) :
                c \in DOMAIN removals /\ removals[c] = spends[n]
          /\ \A c \in Range(spends[n].add) :
                c \in DOMAIN additions /\ additions[c] = spends[n]
    /\ \A c \in DOMAIN removals :
          removals[c].name \in DOMAIN spends /\ spends[removals[c].name] = removals[c]
    /\ \A c \in DOMAIN additions :
          additions[c].name \in DOMAIN spends /\ spends[additions[c].name] = additions[c]

\* C3 (as claimed): the coin indices are coherent in every state reached by
\* calls that keep the stated preconditions, admitted items that name the
\* same coin included.
C3_CoinCoherentAlways == CoinCoherent

\* C3 (amended): the coin indices are coherent in every state reached by
\* calls that keep the stated preconditions and never admit an item naming a
\* coin that is a key of removals / additions at the time of the call.
C3_CoinCoherentResolved == resolved => CoinCoherent

C3_Witness ==
    /\ resolved /\ call.op = "add_to_pool" /\ call.raised = "none"
    /\ call.victim # NoItem /\ Size >= 2
    /\ \E n \in DOMAIN spends : Len(spends[n].rem) >= 2

\* C4: the entry an add_to_pool call on a full pool takes out of spends has a
\* fee_per_cost no greater than that of any entry admitted when it was called.
C4_EvictsMinimum ==
    [][(call'.op = "add_to_pool" /\ Size >= size)
        => \A v \in Evicted : \A n \in DOMAIN spends :
              spends[v].fee_per_cost <= spends[n].fee_per_cost]_vars

C4_Witness ==
    /\ call.op = "add_to_pool" /\ call.raised = "none" /\ call.victim # NoItem
    /\ call.victim.name \notin DOMAIN spends
    /\ \E n \in DOMAIN spends \ {call.item.name} :
          spends[n].fee_per_cost > call.victim.fee_per_cost

\* C5 (as claimed): an add_to_pool call on a full pool takes exactly one entry
\* out of spends, and on a pool that is not full it takes none.
C5_EvictsExactlyOne ==
    [][call'.op = "add_to_pool"
        => IF Size >= size THEN Cardinality(Evicted) = 1 ELSE Evicted = {}]_vars

\* C5 (amended): for callers that resolve coin conflicts before admitting, an
\* add_to_pool call on a full pool of capacity >= 1 takes exactly one entry out
\* of spends, and on a pool that is not full it takes none.
C5_EvictsExactlyOneNonZero ==
    [][(call'.op = "add_to_pool" /\ resolved')
        => IF Size >= size
           THEN size >= 1 => Cardinality(Evicted) = 1
           ELSE Evicted = {}]_vars

C5_Witness ==
    /\ resolved /\ call.op = "add_to_pool" /\ call.raised = "none"
    /\ call.victim # NoItem /\ call.victim.name \notin DOMAIN spends
    /\ \E n \in DOMAIN spends \ {call.item.name} :
          spends[n].fee_per_cost = call.victim.fee_per_cost

\* C6: get_min_fee_rate returns 0 while spends holds fewer entries than the
\* capacity and the smallest admitted fee_per_cost when it holds exactly the
\* capacity, for every capacity, 0 included.
C6_Threshold ==
    call.op = "get_min_fee_rate"
        => /\ call.raised = "none"
           /\ Size < size => call.ret = 0
           /\ (Size = size /\ Size > 0) => call.ret = Min(AdmittedFees)

\* C7: no key of sorted_spends maps to an empty bucket.
C7_NoEmptyBuckets == \A f \in DOMAIN sorted_spends : Len(sorted_spends[f]) > 0

C7_Witness ==
    /\ call.op = "remove_spend" /\ call.raised = "none"
    /\ call.item.fee_per_cost \notin DOMAIN sorted_spends
    /\ DOMAIN sorted_spends # {}

\* C8: add_to_pool with an item whose name is already in spends raises and
\* leaves spends, sorted_spends, additions and removals as they were.
C8_DuplicateFailsLoudly ==
    [][(call'.op = "add_to_pool" /\ call'.item.name \in DOMAIN spends)
        => (call'.raised # "none" /\ UNCHANGED indices)]_vars

\* C9: remove_spend with an item whose name is not in spends raises and
\* leaves spends, sorted_spends, additions and removals as they were.
C9_RemoveAbsentFailsLoudly ==
    [][(call'.op = "remove_spend" /\ call'.item.name \notin DOMAIN spends)
        => (call'.raised # "none" /\ UNCHANGED indices)]_vars

\* C10: on a pool created with size 0, add_to_pool returns without raising and
\* spends still holds at most size entries.
C10_CapacityZero ==
    (size = 0 /\ call.op = "add_to_pool") => (call.raised = "none" /\ Size <= size)

\* The place of name n in bucket b.
Pos(b, n) == CHOOSE i \in DOMAIN b : b[i].name = n

\* Bucket b2 lists the names it shares with b1 in the order b1 lists them, and
\* after them the names that are new in b2.
KeepsInsertionOrder(b1, b2) ==
    /\ \A m, n \in BucketNames(b1) \cap BucketNames(b2) :
          Pos(b1, m) < Pos(b1, n) => Pos(b2, m) < Pos(b2, n)
    /\ \A m \in BucketNames(b1) \cap BucketNames(b2) :
          \A n \in BucketNames(b2) \ BucketNames(b1) : Pos(b2, m) < Pos(b2, n)

\* C11: every bucket lists its entries in the order they were inserted into
\* it (each call keeps the order of the entries that stay and puts a new entry
\* last), and the entry an add_to_pool call evicts is the first one of the
\* bucket of the smallest admitted fee_per_cost: the earliest inserted.
C11_EvictsEarliestInserted ==
    [][/\ \A f \in DOMAIN sorted_spends \cap DOMAIN sorted_spends' :
            KeepsInsertionOrder(sorted_spends[f], sorted_spends'[f])
       /\ (call'.op = "add_to_pool" /\ Size >= size)
            => \A v \in Evicted : v = sorted_spends[Min(AdmittedFees)][1].name]_vars

C11_Witness ==
    /\ call.op = "add_to_pool" /\ call.raised = "none" /\ call.victim # NoItem
    /\ call.victim.name \notin DOMAIN spends
    /\ call.item.fee_per_cost # call.victim.fee_per_cost
    /\ \E n \in DOMAIN spends :
          spends[n].fee_per_cost = call.victim.fee_per_cost

\* C12 (as claimed): the entry an add_to_pool call on a full pool evicts has a
\* fee_per_cost no greater than that of the entry being admitted.
C12_VictimBelowNewcomer ==
    [][(call'.op = "add_to_pool" /\ Size >= size)
        => \A v \in Evicted :
              spends[v].fee_per_cost <= call'.item.fee_per_cost]_vars

\* C12 (amended): the entry an add_to_pool call on a full pool evicts has a
\* fee_per_cost no greater than that of the entry being admitted, provided the
\* entry being admitted has a fee_per_cost no smaller than the smallest
\* admitted one (the threshold get_min_fee_rate reports).
C12_VictimBelowNewcomerAtThreshold ==
    [][(/\ call'.op = "add_to_pool" /\ Size >= size /\ Size > 0
        /\ call'.item.fee_per_cost >= Min(AdmittedFees))
        => \A v \in Evicted :
              spends[v].fee_per_cost <= call'.item.fee_per_cost]_vars

C12_Witness ==
    /\ call.op = "add_to_pool" /\ call.raised = "none" /\ call.victim # NoItem
    /\ call.victim.name \notin DOMAIN spends
    /\ call.item.fee_per_cost = call.victim.fee_per_cost
    /\ \E n \in DOMAIN spends : spends[n].fee_per_cost > call.item.fee_per_cost

\* The call of this step is add_to_pool on a full pool of capacity >= 1 with
\* an item of a new name and a fee_per_cost below the smallest admitted one.
AddBelowThreshold ==
    /\ call'.op = "add_to_pool" /\ Size >= size /\ size >= 1
    /\ call'.item.name \notin DOMAIN spends
    /\ call'.item.fee_per_cost < Min(AdmittedFees)

\* The step took one entry of the smallest fee_per_cost out of spends and
\* left the item of the call in spends, in its bucket and, for each of its
\* coins, in removals / additions.
EvictedMinAndAdmitted ==
    LET item == call'.item
    IN  /\ \E v \in DOMAIN spends :
              spends[v].fee_per_cost = Min(AdmittedFees) /\ Evicted = {v}
        /\ item.name \in DOMAIN spends' /\ spends'[item.name] = item
        /\ item.fee_per_cost \in DOMAIN sorted_spends'
        /\ item.name \in BucketNames(sorted_spends'[item.fee_per_cost])
        /\ \A c \in Range(item.rem) : c \in DOMAIN removals' /\ removals'[c] = item
        /\ \A c \in Range(item.add) : c \in DOMAIN additions' /\ additions'[c] = item

\* C13 (as claimed): add_to_pool on a full pool (capacity >= 1) with an item
\* below the threshold still evicts the current minimum and admits the item
\* into all indices.
C13_AdmittedBelowThreshold == [][AddBelowThreshold => EvictedMinAndAdmitted]_vars

\* C13 (amended): the same, for callers that never admit an item naming a
\* coin that is a key of removals / additions at the time of the call.
C13_AdmittedBelowThresholdResolved ==
    [][(AddBelowThreshold /\ resolved') => EvictedMinAndAdmitted]_vars

C13_Witness ==
    /\ resolved /\ call.op = "add_to_pool" /\ call.raised = "none"
    /\ call.victim # NoItem /\ call.victim.name \notin DOMAIN spends
    /\ call.item.fee_per_cost < call.victim.fee_per_cost
    /\ call.item.name \in DOMAIN spends

\* C14: at_full_capacity returns true exactly when spends holds at least size
\* entries, and neither at_full_capacity nor get_min_fee_rate changes spends,
\* sorted_spends, additions, removals, min_fee or size.
C14_QueriesPure ==
    [][call'.op \in {"at_full_capacity", "get_min_fee_rate"}
        => /\ UNCHANGED <<spends, sorted_spends, additions, removals, min_fee, size>>
           /\ call'.op = "at_full_capacity" => (call'.full <=> Size >= size)]_vars

C14_Witness ==
    /\ call.op = "at_full_capacity" /\ call.full
    /\ Size = size /\ size >= 2

\* C15: a name enters spends only as the item of an add_to_pool call; it
\* leaves spends only as the item of a remove_spend call or in an add_to_pool
\* call for another item; the item of an add_to_pool call that returns is in
\* spends.
C15_Lifecycle ==
    [][/\ \A n \in DOMAIN spends' \ DOMAIN spends :
            call'.op = "add_to_pool" /\ call'.item.name = n
       /\ \A n \in DOMAIN spends \ DOMAIN spends' :
            \/ call'.op = "remove_spend" /\ call'.item.name = n
            \/ call'.op = "add_to_pool" /\ call'.item.name # n
       /\ (call'.op = "add_to_pool" /\ call'.raised = "none")
            => call'.item.name \in DOMAIN spends']_vars

C15_Witness ==
    /\ call.op = "add_to_pool" /\ call.raised = "none" /\ size >= 2
    /\ call.victim # NoItem /\ call.victim.name \notin DOMAIN spends
    /\ call.item.name \in DOMAIN spends
    /\ \A n \in DOMAIN spends : call.item.fee_per_cost <= spends[n].fee_per_cost
    /\ call.item.fee_per_cost < call.victim.fee_per_cost

\* C16: every add_to_pool call with a name that is not in spends and every
\* remove_spend call on an admitted item ends without an exception.
C16_RunToCompletion ==
    call.op \in {"add_to_pool", "remove_spend"} => call.raised = "none"

\* The coins of removals / additions that map to an item named n.
RemovalKeysOf(m, n) == {c \in DOMAIN m : m[c].name = n}

\* The keys of sorted_spends whose bucket holds the name n.
BucketsOf(ss, n) == {f \in DOMAIN ss : n \in BucketNames(ss[f])}

\* The name n is in all of spends, the bucket of its fee_per_cost and, for
\* each coin of its bundle, removals / additions; or it is in none of them.
AllOrNothing(n) ==
    IF n \in DOMAIN spends
    THEN /\ BucketsOf(sorted_spends, n) = {spends[n].fee_per_cost}
         /\ RemovalKeysOf(removals, n) = Range(spends[n].rem)
         /\ RemovalKeysOf(additions, n) = Range(spends[n].add)
    ELSE /\ BucketsOf(sorted_spends, n) = {}
         /\ RemovalKeysOf(removals, n) = {}
         /\ RemovalKeysOf(additions, n) = {}

\* C17 (as claimed): with every call one uninterrupted step, each entry is in
\* all of the indices or in none of them, in every state.
C17_AllOrNothing == \A n \in Names : AllOrNothing(n)

\* C17 (amended): the same, for callers that never admit an item naming a
\* coin that is a key of removals / additions at the time of the call.
C17_AllOrNothingResolved == resolved => \A n \in Names : AllOrNothing(n)

C17_Witness ==
    /\ resolved /\ call.op = "remove_spend" /\ call.raised = "none"
    /\ Len(call.item.rem) >= 2 /\ call.item.name \notin DOMAIN spends
    /\ Size >= 1

\* No other admitted item names a coin of item e.
NotShared(e) ==
    \A n \in DOMAIN spends \ {e.name} :
        /\ Range(spends[n].rem) \cap Range(e.rem) = {}
        /\ Range(spends[n].add) \cap Range(e.add) = {}

\* Each coin of item e is indexed to e.
Owns(e) ==
    /\ \A c \in Range(e.rem) : c \in DOMAIN removals /\ removals[c] = e
    /\ \A c \in Range(e.add) : c \in DOMAIN additions /\ additions[c] = e

\* The step took item e out of every index and left the index entries of
\* every other admitted item as they were.
RemovedOnly(e) ==
    /\ e.name \notin DOMAIN spends'
    /\ BucketsOf(sorted_spends', e.name) = {}
    /\ Range(e.rem) \cap DOMAIN removals' = {}
    /\ Range(e.add) \cap DOMAIN additions' = {}
    /\ \A n \in DOMAIN spends \ {e.name} :
          /\ n \in DOMAIN spends' /\ spends'[n] = spends[n]
          /\ BucketsOf(sorted_spends', n) = BucketsOf(sorted_spends, n)
          /\ RemovalKeysOf(removals', n) = RemovalKeysOf(removals, n)
          /\ RemovalKeysOf(additions', n) = RemovalKeysOf(additions, n)

\* C18 (as claimed): remove_spend(e) on an admitted e whose coins no other
\* admitted entry names takes e out of every index and changes no index entry
\* of another admitted entry.
C18_RemoveEffect ==
    [][(/\ call'.op = "remove_spend" /\ Admitted(call'.item)
        /\ NotShared(call'.item))
        => RemovedOnly(call'.item)]_vars

\* C18 (amended): the same, for an admitted e whose coins no other admitted
\* entry names and each of whose coins is indexed to e when it is called.
C18_RemoveEffectOwned ==
    [][(/\ call'.op = "remove_spend" /\ Admitted(call'.item)
        /\ NotShared(call'.item) /\ Owns(call'.item))
        => RemovedOnly(call'.item)]_vars

C18_Witness ==
    /\ call.op = "remove_spend" /\ call.raised = "none"
    /\ call.item.name \notin DOMAIN spends
    /\ size >= 2 /\ Size = size - 1

\* C19: after an add_to_pool call that returns, the keys of removals that map
\* to the item are the coins the item consumes and the keys of additions that
\* map to it are the coins it produces, whatever additions and removals_dic
\* were passed.
C19_IndexesOwnCoins ==
    (call.op = "add_to_pool" /\ call.raised = "none") =>
        /\ {c \in DOMAIN removals : removals[c] = call.item}
              = Range(call.item.rem)
        /\ {c \in DOMAIN additions : additions[c] = call.item}
              = Range(call.item.add)

\* The item is written to one of the four indices of pool q.
Written(q, item) ==
    \/ item.name \in DOMAIN q.spends
    \/ BucketsOf(q.sorted_spends, item.name) # {}
    \/ \E c \in DOMAIN q.removals : q.removals[c] = item
    \/ \E c \in DOMAIN q.additions : q.additions[c] = item

\* C20: in every pool that an add_to_pool call on a full pool passes through,
\* spends has at most size entries, and where the new item is written to any
\* index the victim (the first item of the lowest bucket) is in none of the
\* four; the call ends in one of these pools or leaves the pool as it was.
C20_EvictionPrecedesInsertion ==
    [][(call'.op = "add_to_pool" /\ at_full_capacity(spends, size)) =>
          LET item == call'.item
              states == add_to_pool_states(Pool, size, item, Range(item.add),
                                           Range(item.rem))
          IN  /\ Pool' \in states \cup {Pool}
              /\ \A q \in states :
                    /\ Cardinality(DOMAIN q.spends) <= size
                    /\ (Written(q, item) /\ DOMAIN sorted_spends # {}) =>
                          ~Written(q, to_remove(sorted_spends))]_vars

C20_Witness ==
    /\ call.op = "add_to_pool" /\ call.full /\ call.raised = "none"
    /\ Len(call.victim.rem) >= 2 /\ call.victim.name \notin DOMAIN spends
    /\ Size = size /\ size >= 2

\* C21: add_to_pool of a name that is not in spends adds one entry to spends
\* when the pool is not full, and leaves spends with size entries when the
\* pool is full and size >= 1.
C21_SizeChange ==
    [][(call'.op = "add_to_pool" /\ call'.item.name \notin DOMAIN spends) =>
          /\ Size < size => Cardinality(DOMAIN spends') = Size + 1
          /\ (Size >= size /\ size >= 1) => Cardinality(DOMAIN spends') = size]_vars

C21_Witness ==
    /\ call.op = "add_to_pool" /\ call.full /\ call.raised = "none"
    /\ call.victim # NoItem /\ size >= 1 /\ Size = size
    /\ call.item.fee_per_cost < call.victim.fee_per_cost

\* C22: min_fee is 0 before and after every call, and no call changes size
\* or header.
C22_ConfigurationFixed ==
    [][/\ min_fee = 0 /\ min_fee' = 0
       /\ size' = size /\ header' = header]_vars

C22_Witness ==
    /\ call.op = "remove_spend" /\ call.raised = "none"
    /\ call.item.fee_per_cost = MaxFee /\ Size >= 1
    /\ min_fee = 0 /\ size = MaxSize /\ header \in Tips

\* No coin of the item is a key of removals / additions that maps to an item
\* stored in spends.
NotIndexedForAdmitted(item) ==
    /\ \A c \in Range(item.rem) \cap DOMAIN removals : ~Admitted(removals[c])
    /\ \A c \in Range(item.add) \cap DOMAIN additions : ~Admitted(additions[c])

\* C23: after add_to_pool(e) on a pool that is not full, for a name that is
\* not in spends and coins that are not indexed for an admitted entry,
\* remove_spend(e) returns and leaves spends, sorted_spends, additions and
\* removals as they were before the add_to_pool call.
C23_RoundTrip ==
    [][(/\ call'.op = "add_to_pool" /\ Size < size
        /\ call'.item.name \notin DOMAIN spends
        /\ NotIndexedForAdmitted(call'.item))
        => remove_spend([spends |-> spends', sorted_spends |-> sorted_spends',
                         additions |-> additions', removals |-> removals'],
                        call'.item)
             = [pool |-> Pool, raised |-> "none"]]_vars

C23_Witness ==
    /\ call.op = "add_to_pool" /\ ~call.full /\ call.raised = "none"
    /\ resolved /\ Admitted(call.item) /\ Owns(call.item)
    /\ Len(sorted_spends[call.item.fee_per_cost]) >= 2

\* C24: after an add_to_pool call that evicted a victim, a coin the victim
\* consumes is a key of removals only if the new item consumes it, a coin the
\* victim produces is a key of additions only if the new item produces it,
\* and get_min_fee_rate returns the smallest fee_per_cost among the items
\* that were in spends before the call, without the victim, and the new item.
C24_EvictionClearsVictim ==
    [][(/\ call'.op = "add_to_pool" /\ call'.raised = "none"
        /\ call'.victim # NoItem)
        => LET v == call'.victim
               item == call'.item
               survivors == DOMAIN spends \ {v.name}
           IN  /\ Range(v.rem) \cap DOMAIN removals' \subseteq Range(item.rem)
               /\ Range(v.add) \cap DOMAIN additions' \subseteq Range(item.add)
               /\ get_min_fee_rate([spends |-> spends',
                                    sorted_spends |-> sorted_spends',
                                    additions |-> additions',
                                    removals |-> removals'], size')
                    = [ret |-> Min({spends[n].fee_per_cost : n \in survivors}
                                   \cup {item.fee_per_cost}),
                       raised |-> "none"]]_vars

C24_Witness ==
    /\ call.op = "add_to_pool" /\ call.raised = "none" /\ call.victim # NoItem
    /\ Range(call.victim.rem) \cap Range(call.item.rem) # {}
    /\ Range(call.victim.rem) \cap DOMAIN removals # {}
    /\ Size = size /\ size >= 2
    /\ \E n \in DOMAIN spends : spends[n].fee_per_cost < call.item.fee_per_cost

TimedOut(id) == Failed("Timed out. Transaction may or may not have been sent.", id)

\* What C25 says of every state of a request.
PollingResult ==
    /\ pc # "raised"
    /\ pc \in {"poll", "sleep"} => (pushed /\ first = NoStatus /\ ~sent)
    /\ pc = "poll" => now - start < TIMEOUT
    /\ (pc = "done" /\ pushed) =>
          /\ data.status \in {"SUCCESS", "PENDING", "FAILED"}
          /\ data.id = wallet_id
          /\ first # NoStatus =>
                /\ data.status = first[2]
                /\ first[2] # "SUCCESS" => data.reason = first[3]
          /\ first = NoStatus =>
                (data = TimedOut(wallet_id) /\ now - start >= TIMEOUT)

\* C25: once the transaction is pushed the request polls only while no
\* status has been reported and only when less than TIMEOUT has elapsed at
\* the loop test; it ends with a response, whose status is that of the first
\* entry of the first non-empty result (with its error as the reason), or
\* FAILED with the timed-out reason when every poll came back empty and
\* TIMEOUT has elapsed.
C25_WalletPolling == []PollingResult /\ <>(pc = "done")

C25_Witness ==
    /\ pc = "done" /\ pushed /\ first = NoStatus
    /\ data = TimedOut(wallet_id) /\ now - start >= TIMEOUT

====
